---- MODULE Spec2Model ----
(***************************************************************************)
(* bcrypt-cache: a cache in front of bcrypt.compare.                       *)
(*                                                                         *)
(* The model covers the caching core (BcryptCache: get, set, compare,     *)
(* remove), the in-process backend (MemoryCache) and the networked         *)
(* backend (RedisCache) with the store it talks to.                        *)
(*                                                                         *)
(* Strings are sequences of naturals whose first element is the string's   *)
(* length, which is all the code ever inspects of a string's shape:        *)
(*   <<5, i>>              the plain-text token number i                   *)
(*   <<32>> \o s           the md5 hex digest of s                        *)
(*   <<60, cost>> \o s     a bcrypt hash of s at work factor cost          *)
(*   <<13>> \o s           s behind the 13 characters of 'bcrypt-cache:'   *)
(*   <<>>                  undefined / null                                *)
(***************************************************************************)
EXTENDS Integers, Sequences, FiniteSets, TLC

\* ------------------------------------------------------------ bounds
MaxTime == 3     \* the clock stops here
MaxQueue == 2    \* commands the store may have outstanding
TTL == 2         \* options.ttl, in clock units

Procs == {1, 2}

\* ------------------------------------------------------------ strings
Undefined == <<>>

Token(i) == <<5, i>>

Tokens == {Token(1), Token(2)}

StrLen(s) == s[1]

\* lib/md5: hex digest, always 32 characters, taken as injective.
md5(s) == <<32>> \o s

\* bcrypt.hash(value, cost): a 60 character hash (the salt is left out).
bcrypt_hash(value, cost) == <<60, cost>> \o value

\* bcrypt.compare(value, hash): false for anything that is no bcrypt hash.
bcrypt_compare(value, hash) ==
    /\ hash # Undefined
    /\ StrLen(hash) = 60
    /\ SubSeq(hash, 3, Len(hash)) = value

\* The hash the tests use: a work factor 10 hash of the first token.
tokenHash == bcrypt_hash(Token(1), 10)

\* The hashes callers pass: a real bcrypt hash, a 32 character string that is
\* no bcrypt hash (it happens to be the digest of the first token), and the
\* digest of the real hash, which is the key the real hash is stored under.
HashArgs == {tokenHash, md5(Token(1)), md5(tokenHash)}

\* Only MemoryCache.prototype._compare looks at the length of a hash, so the
\* 32 character argument is given to the memory backend alone.
HashesOf(b) == IF b = "memory" THEN {tokenHash, md5(Token(1))} ELSE {tokenHash}

\* A hash and the hash that is its digest: the pair callers of the memory
\* backend pass when hashes are themselves digest-shaped strings.
DigestHashes == {tokenHash, md5(tokenHash)}

VARIABLES
    backend,    \* "memory" (MemoryCache) or "redis" (RedisCache)
    now,        \* Date.now() / the store's clock
    cache,      \* MemoryCache: this.cache, key -> [value, expiration]
    redis,      \* the store's keys, prefixed key -> [value, expiresAt]
    queue,      \* commands sent to the store and not yet answered, in order
    procs,      \* the calls in flight, one per caller
    warm,       \* history: hash -> token of the last quiet successful compare
    removed,    \* history: hashes removed and not set or compared since
    stored,     \* history: hash -> <<token, time, time set>> of the last set
                \* or read of its entry, no call made since
    gone        \* history: hashes a remove has completed for, with no set or
                \* compare of them called, and nothing written for them, since

vars == <<backend, now, cache, redis, queue, procs, warm, removed, stored, gone>>

\* ------------------------------------------------------------ callers
IdleProc ==
    [ op        |-> "none",
      hash      |-> Undefined,
      token     |-> Undefined,
      pc        |-> "idle",
      looked    |-> "none",      \* outcome of the lookup: hit, miss, fail
      val       |-> Undefined,   \* what get resolved to
      needsSave |-> FALSE,
      cmpArg    |-> Undefined,   \* first argument given to _compare
      bcryptArg |-> Undefined,   \* hash given to bcrypt.compare
      hashed    |-> FALSE,       \* _hash was called
      wrote     |-> FALSE,       \* _set was called
      setRes    |-> "none",      \* what set resolved to
      res       |-> "none",      \* what the call resolved to
      warned    |-> FALSE,       \* a warn event was emitted
      saw       |-> "none",      \* history: warm / removed at lookup time
      sawSet    |-> <<>>,        \* history: stored[hash] when get was called
      at        |-> 0,           \* history: the time get looked the entry up
      keys      |-> {},          \* history: the backend keys the call named
      revived   |-> FALSE ]      \* history: the write followed a completed remove

\* No other call is in flight.
Quiet(p) == \A q \in Procs \ {p} : procs[q].pc = "idle"

\* Callers are interchangeable: a new call takes the first free slot.
FreeSlot(p) ==
    /\ procs[p].pc = "idle"
    /\ \A q \in Procs : q < p => procs[q].pc # "idle"

\* A settled call is taken by its caller before anything else is looked at:
\* taking a result touches nothing the other steps read.
NoneDone == \A q \in Procs : procs[q].pc # "done"

\* ------------------------------------------------------------ core, pure parts
\* get / set / remove: the backend key of a hash.
CacheKey(hash) == md5(hash)

\* A set that checks its first argument only.
MissingHashOnly(hash, token) == hash = Undefined

\* set: hash == null || token == null
MissingParams(hash, token) == hash = Undefined \/ token = Undefined

\* compare, first then(): !result
NeedsSave(result) == result = Undefined

\* A compare that hands the original hash on whatever get found.
CompareArgAlwaysHash(result, hash) == hash

\* compare, first then(): what is handed on to _compare
CompareArg(result, hash) == IF NeedsSave(result) THEN hash ELSE result

\* compare, tap(): result === true && needsSave
ShouldSave(result, needsSave) == result /\ needsSave

\* BcryptCache.prototype._compare
BaseCompare(hash, value) == bcrypt_compare(value, hash)

\* MemoryCache.prototype._compare
MemCompare(hash, value) ==
    IF StrLen(hash) = 32 THEN md5(value) = hash ELSE BaseCompare(hash, value)

\* this._compare(hash, value) of the backend in use
BackendCompare(hash, value) ==
    IF backend = "memory" THEN MemCompare(hash, value) ELSE BaseCompare(hash, value)

\* The hash bcrypt.compare is given by this._compare, Undefined when it is
\* not called.
BcryptArgOf(hash) ==
    IF backend = "memory" /\ StrLen(hash) = 32 THEN Undefined ELSE hash

\* A _hash that hands the token back as it came.
BackendHashPlain(value) == value

\* this._hash(value): MemoryCache.prototype._hash / BcryptCache.prototype._hash
BackendHash(value) ==
    IF backend = "memory" THEN md5(value) ELSE bcrypt_hash(value, 4)

\* set, catch(): the handler returns nothing
SetFailed == "undefined"

\* ------------------------------------------------------------ MemoryCache
Without(f, key) == [k \in DOMAIN f \ {key} |-> f[k]]

\* A _remove that deletes nothing.
MemRemoveNothing(c, key) == c

\* MemoryCache.prototype._remove: the mapping afterwards, and the result
MemRemove(c, key) == Without(c, key)

MemRemoveResult(c, key) == key \notin DOMAIN MemRemove(c, key)

\* BcryptCache.prototype.remove on the memory backend, as _get calls it
MemPublicRemove(c, hash) == MemRemove(c, CacheKey(hash))

\* An expiry check that never finds an entry expired.
MemNeverExpired(c, key) == FALSE

MemExpired(c, key) == c[key].expiration < now

\* MemoryCache.prototype._get: the value returned
MemGetValue(c, key) ==
    IF key \in DOMAIN c /\ ~MemExpired(c, key) THEN c[key].value ELSE Undefined

\* A _get that returns the value and leaves the expiration as it was.
MemGetNoRefresh(c, key) ==
    IF key \notin DOMAIN c THEN c
    ELSE IF MemExpired(c, key) THEN MemPublicRemove(c, key)
    ELSE c

\* MemoryCache.prototype._get: the mapping afterwards
MemGetCache(c, key) ==
    IF key \notin DOMAIN c THEN c
    ELSE IF MemExpired(c, key) THEN MemPublicRemove(c, key)
    ELSE [c EXCEPT ![key].expiration = now + TTL]

\* MemoryCache.prototype._get: the keys it names, its own and, for an expired
\* entry, the one this.remove(key) derives from it
MemGetKeys(c, key) ==
    IF key \in DOMAIN c /\ MemExpired(c, key) THEN {key, CacheKey(key)} ELSE {key}

\* A _set that takes the lifetime off the clock instead of adding it.
MemSetSignSlip(c, key, value) ==
    (key :> [value |-> value, expiration |-> now - TTL]) @@ c

\* MemoryCache.prototype._set: the mapping afterwards, and the result
MemSet(c, key, value) ==
    (key :> [value |-> value, expiration |-> now + TTL]) @@ c

MemSetResult(c, key, value) == key \in DOMAIN MemSet(c, key, value)

\* A scan that removes what has not expired and keeps what has.
MemPruneUnexpired(c) ==
    [k \in {x \in DOMAIN c : c[x].expiration < now} |-> c[k]]

\* MemoryCache.prototype._prune
MemPrune(c) ==
    [k \in {x \in DOMAIN c : ~(c[x].expiration < now)} |-> c[k]]

\* ------------------------------------------------------------ RedisCache and its store
Prefix(key) == <<13>> \o key

Command(cmd, key, value, p) == [cmd |-> cmd, key |-> key, val |-> value, p |-> p]

\* A store that answers DEL and keeps the key.
StoreApplyKeepsKey(r, c) ==
    CASE c.cmd = "SETEX" ->
           (c.key :> [value |-> c.val, expiresAt |-> now + TTL]) @@ r
      [] c.cmd = "EXPIRE" ->
           IF c.key \in DOMAIN r THEN [r EXCEPT ![c.key].expiresAt = now + TTL]
           ELSE r
      [] OTHER -> r

\* What the store holds after a command: SETEX key ttl value, DEL key,
\* EXPIRE key ttl, GET key.
StoreApply(r, c) ==
    CASE c.cmd = "SETEX" ->
           (c.key :> [value |-> c.val, expiresAt |-> now + TTL]) @@ r
      [] c.cmd = "DEL" -> Without(r, c.key)
      [] c.cmd = "EXPIRE" ->
           IF c.key \in DOMAIN r THEN [r EXCEPT ![c.key].expiresAt = now + TTL]
           ELSE r
      [] OTHER -> r

StoreGet(r, key) == IF key \in DOMAIN r THEN r[key].value ELSE Undefined

\* The store drops a key once its time to live has run out.
StoreExpire(r, t) == [k \in {x \in DOMAIN r : r[x].expiresAt > t} |-> r[k]]

\* ------------------------------------------------------------ lookups
\* Whether the backend holds an entry a get of this hash would return.
Live(hash) ==
    IF backend = "memory"
    THEN CacheKey(hash) \in DOMAIN cache /\ ~MemExpired(cache, CacheKey(hash))
    ELSE Prefix(CacheKey(hash)) \in DOMAIN redis

Held(hash) ==
    IF backend = "memory" THEN CacheKey(hash) \in DOMAIN cache
    ELSE Prefix(CacheKey(hash)) \in DOMAIN redis

StoreValue(hash) ==
    IF backend = "memory" THEN cache[CacheKey(hash)].value
    ELSE redis[Prefix(CacheKey(hash))].value

SawAt(pr) ==
    IF pr.op = "compare" /\ warm[pr.hash] = pr.token THEN "warm"
    ELSE IF pr.hash \in removed THEN "removed"
    ELSE "none"

\* set: entered with its arguments
SetStart(pr) ==
    IF MissingParams(pr.hash, pr.token)
    THEN [pr EXCEPT !.warned = TRUE, !.setRes = "false", !.res = "false",
                    !.pc = "done"]
    ELSE [pr EXCEPT !.hashed = TRUE, !.setRes = "pending", !.pc = "set_hash"]

\* A set without its catch(): a failure rejects, and compare's tap() with it.
FinishSetNoCatch(pr, r, failed) ==
    [pr EXCEPT !.setRes = r,
               !.res = IF failed THEN "rejected"
                       ELSE IF pr.op = "set" THEN r ELSE pr.res,
               !.pc = "done"]

\* set has settled with r; compare's tap() drops r and keeps its own result.
FinishSet(pr, r, failed) ==
    [pr EXCEPT !.setRes = r,
               !.warned = pr.warned \/ failed,
               !.res = IF pr.op = "set" THEN r ELSE pr.res,
               !.pc = "done"]

\* A compare whose tap() starts set and does not return its promise: the
\* result is delivered with the population still to come.
CompareThenNoWait(pr) ==
    LET save   == NeedsSave(pr.val)
        arg    == CompareArg(pr.val, pr.hash)
        result == BackendCompare(arg, pr.token)
        cmp    == [pr EXCEPT !.needsSave = save,
                             !.cmpArg = arg,
                             !.bcryptArg = BcryptArgOf(arg),
                             !.res = IF result THEN "true" ELSE "false"]
    IN  IF ShouldSave(result, save) THEN [SetStart(cmp) EXCEPT !.pc = "done"]
        ELSE [cmp EXCEPT !.pc = "done"]

\* compare: the two then() and the tap() that follow get. They read nothing
\* but the call's own values, so they are taken with the settling of get.
CompareThen(pr) ==
    LET save   == NeedsSave(pr.val)
        arg    == CompareArg(pr.val, pr.hash)
        result == BackendCompare(arg, pr.token)
        cmp    == [pr EXCEPT !.needsSave = save,
                             !.cmpArg = arg,
                             !.bcryptArg = BcryptArgOf(arg),
                             !.res = IF result THEN "true" ELSE "false"]
    IN  IF ShouldSave(result, save) THEN SetStart(cmp)
        ELSE [cmp EXCEPT !.pc = "done"]

\* get: this._get has settled (failed: it rejected, the catch() warned). For
\* compare the then() callbacks follow.
AfterGet(pr, v, failed, sawv) ==
    LET base == [pr EXCEPT !.val = v,
                           !.looked = IF failed THEN "fail"
                                      ELSE IF v = Undefined THEN "miss" ELSE "hit",
                           !.warned = pr.warned \/ failed,
                           !.saw = sawv]
    IN  IF pr.op = "get"
        THEN [base EXCEPT !.pc = "done",
                          !.res = IF v = Undefined THEN "undefined" ELSE "value"]
        ELSE CompareThen(base)

\* ------------------------------------------------------------ history
WarmAfter(p, pr, q) ==
    IF /\ pr.pc = "done" /\ pr.op = "compare" /\ pr.looked = "miss"
       /\ pr.res = "true" /\ pr.setRes = "true"
       /\ bcrypt_compare(pr.token, pr.hash)
       /\ Quiet(p) /\ q = <<>>
    THEN [warm EXCEPT ![pr.hash] = pr.token]
    ELSE warm

RemovedAfter(p, pr, q) ==
    IF /\ pr.pc = "done" /\ pr.op = "remove" /\ pr.res = "true"
       /\ Quiet(p) /\ q = <<>>
    THEN removed \cup {pr.hash}
    ELSE removed

\* The store has carried out a command: a DEL completes the remove of its
\* caller's hash, a SETEX writes an entry for the hash its key belongs to.
GoneAfter(c) ==
    CASE c.cmd = "DEL" /\ c.p # 0 -> gone \cup {procs[c.p].hash}
      [] c.cmd = "SETEX" -> gone \ {h \in HashArgs : Prefix(CacheKey(h)) = c.key}
      [] OTHER -> gone

StoredNone == [h \in HashArgs |-> <<>>]

\* A set that returned true, or a get that found the entry and refreshed it,
\* with nothing else outstanding: the token, the time, and the time the entry
\* was set.
StoredAfter(p, pr, q, held) ==
    IF pr.pc = "done" /\ ~pr.warned /\ Quiet(p) /\ q = <<>>
    THEN IF pr.op = "set" /\ pr.res = "true"
         THEN [StoredNone EXCEPT ![pr.hash] = <<pr.token, now, now>>]
         ELSE IF /\ pr.op = "get" /\ pr.looked = "hit" /\ held
                 /\ pr.sawSet # <<>> /\ stored[pr.hash] = pr.sawSet
         THEN [StoredNone EXCEPT ![pr.hash] = <<pr.sawSet[1], now, pr.sawSet[3]>>]
         ELSE StoredNone
    ELSE StoredNone

\* ------------------------------------------------------------ Init
Init ==
    /\ backend \in {"memory", "redis"}
    /\ now = 0
    /\ cache = <<>>
    /\ redis = <<>>
    /\ queue = <<>>
    /\ procs = [p \in Procs |-> IdleProc]
    /\ warm = [h \in HashArgs |-> Undefined]
    /\ removed = {}
    /\ stored = StoredNone
    /\ gone = {}

\* ------------------------------------------------------------ actions
Update(p, pr) == procs' = [procs EXCEPT ![p] = pr]

Begin(op, hash, token) == [IdleProc EXCEPT !.op = op, !.hash = hash, !.token = token]

\* The lookup of get(hash): this._get(md5(hash)). The memory backend answers
\* within the call (or rejects, when _get is stubbed to fail as in the tests);
\* the networked backend sends GET and waits.
Lookup(p, pr) ==
    IF backend = "memory"
    THEN \E failed \in BOOLEAN :
           LET key == CacheKey(pr.hash)
               fin == AfterGet([pr EXCEPT !.at = IF pr.op = "get" THEN now ELSE 0,
                                          !.keys = IF failed THEN {key}
                                                   ELSE MemGetKeys(cache, key)],
                               IF failed THEN Undefined ELSE MemGetValue(cache, key),
                               failed,
                               IF failed THEN "none" ELSE SawAt(pr))
           IN  /\ cache' = IF failed THEN cache ELSE MemGetCache(cache, key)
               /\ Update(p, fin)
               /\ stored' = StoredAfter(p, fin, queue, TRUE)
               /\ UNCHANGED queue
    ELSE /\ Len(queue) < MaxQueue
         /\ queue' = Append(queue, Command("GET", Prefix(CacheKey(pr.hash)), Undefined, p))
         /\ Update(p, [pr EXCEPT !.pc = "get_wait",
                                 !.keys = {Prefix(CacheKey(pr.hash))}])
         /\ stored' = [h \in HashArgs |->
                         IF pr.sawSet # <<>> /\ h = pr.hash THEN stored[h] ELSE <<>>]
         /\ UNCHANGED cache

\* BcryptCache.prototype.get
CallGet(p, hash) ==
    /\ FreeSlot(p)
    /\ NoneDone
    /\ Lookup(p, [Begin("get", hash, Undefined) EXCEPT
                     !.sawSet = IF Quiet(p) THEN stored[hash] ELSE <<>>])
    /\ UNCHANGED <<backend, now, redis, warm, removed, gone>>

\* BcryptCache.prototype.compare: the call, up to the lookup
CallCompare(p, hash, token) ==
    /\ FreeSlot(p)
    /\ NoneDone
    /\ Lookup(p, Begin("compare", hash, token))
    /\ removed' = removed \ {hash}
    /\ gone' = gone \ {hash}
    /\ UNCHANGED <<backend, now, redis, warm>>

\* BcryptCache.prototype.set: the call, up to this._hash(token)
CallSet(p, hash, token) ==
    /\ FreeSlot(p)
    /\ NoneDone
    /\ Update(p, SetStart(Begin("set", hash, token)))
    /\ stored' = StoredNone
    /\ warm' = [h \in HashArgs |-> IF h = hash THEN Undefined ELSE warm[h]]
    /\ removed' = removed \ {hash}
    /\ gone' = gone \ {hash}
    /\ UNCHANGED <<backend, now, cache, redis, queue>>

\* BcryptCache.prototype.set: this._hash has settled; then this._set, and for
\* the memory backend the end of set. The cheap bcrypt hash can fail; _set of
\* the memory backend fails when stubbed to, as in the tests.
Hash(p) ==
    LET pr  == procs[p]
        key == CacheKey(pr.hash)
        val == BackendHash(pr.token)
    IN  /\ pr.pc = "set_hash"
        /\ NoneDone
        /\ \/ /\ backend = "redis"
              /\ Update(p, FinishSet(pr, SetFailed, TRUE))
              /\ stored' = StoredNone
              /\ UNCHANGED <<cache, queue, warm, gone>>
           \/ /\ backend = "memory"
              /\ \E failed \in BOOLEAN :
                   LET fin == FinishSet([pr EXCEPT !.wrote = TRUE,
                                                  !.keys = pr.keys \cup {key},
                                                  !.revived = ~failed /\ pr.hash \in gone],
                                        IF failed THEN SetFailed
                                        ELSE IF MemSetResult(cache, key, val)
                                             THEN "true" ELSE "false",
                                        failed)
                   IN  /\ cache' = IF failed THEN cache ELSE MemSet(cache, key, val)
                       /\ Update(p, fin)
                       /\ warm' = WarmAfter(p, fin, queue)
                       /\ stored' = StoredAfter(p, fin, queue, TRUE)
                       /\ gone' = IF failed THEN gone ELSE gone \ {pr.hash}
              /\ UNCHANGED queue
           \/ /\ backend = "redis"
              /\ Len(queue) < MaxQueue
              /\ queue' = Append(queue, Command("SETEX", Prefix(key), val, p))
              /\ Update(p, [pr EXCEPT !.wrote = TRUE, !.pc = "set_wait",
                                      !.keys = pr.keys \cup {Prefix(key)}])
              /\ stored' = StoredNone
              /\ UNCHANGED <<cache, warm, gone>>
        /\ UNCHANGED <<backend, now, redis, removed>>

\* BcryptCache.prototype.remove
CallRemove(p, hash) ==
    LET key == CacheKey(hash)
        pr  == [Begin("remove", hash, Undefined) EXCEPT
                  !.saw = IF hash \in removed THEN "removed" ELSE "none",
                  !.keys = IF backend = "memory" THEN {key} ELSE {Prefix(key)}]
    IN  /\ FreeSlot(p)
        /\ NoneDone
        /\ stored' = StoredNone
        /\ warm' = [h \in HashArgs |-> IF h = hash THEN Undefined ELSE warm[h]]
        /\ IF backend = "memory"
           THEN LET fin == [pr EXCEPT !.pc = "done",
                                      !.res = IF MemRemoveResult(cache, key)
                                              THEN "true" ELSE "false"]
                IN  /\ cache' = MemRemove(cache, key)
                    /\ Update(p, fin)
                    /\ removed' = RemovedAfter(p, fin, queue)
                    /\ gone' = gone \cup {hash}
                    /\ UNCHANGED queue
           ELSE /\ Len(queue) < MaxQueue
                /\ queue' = Append(queue, Command("DEL", Prefix(key), Undefined, p))
                /\ Update(p, [pr EXCEPT !.pc = "rm_wait"])
                /\ UNCHANGED <<cache, removed, gone>>
        /\ UNCHANGED <<backend, now, redis>>

\* The store answers the oldest command. RedisCache.prototype._get follows a
\* value with EXPIRE and waits for it; _set turns the reply into a boolean;
\* _remove yields true.
StoreReply ==
    /\ queue # <<>>
    /\ NoneDone
    /\ LET c    == Head(queue)
           rest == Tail(queue)
           pr   == procs[c.p]
           v    == StoreGet(redis, c.key)
       IN  /\ redis' = StoreApply(redis, c)
           /\ IF c.p = 0
              THEN /\ queue' = rest
                   /\ UNCHANGED <<procs, warm, removed, stored>>
              ELSE CASE c.cmd = "GET" ->
                          LET at == IF pr.op = "get" THEN now ELSE 0
                          IN  IF v # Undefined
                              THEN /\ queue' = Append(rest, Command("EXPIRE", c.key, Undefined, c.p))
                                   /\ Update(c.p, [pr EXCEPT !.pc = "exp_wait", !.val = v,
                                                             !.saw = SawAt(pr), !.at = at])
                                   /\ UNCHANGED <<warm, removed, stored>>
                              ELSE /\ queue' = rest
                                   /\ Update(c.p, AfterGet([pr EXCEPT !.at = at],
                                                           Undefined, FALSE, SawAt(pr)))
                                   /\ stored' = StoredNone
                                   /\ UNCHANGED <<warm, removed>>
                     [] c.cmd = "EXPIRE" ->
                          LET fin == AfterGet(pr, pr.val, FALSE, pr.saw)
                          IN  /\ queue' = rest
                              /\ Update(c.p, fin)
                              /\ stored' = StoredAfter(c.p, fin, rest, c.key \in DOMAIN redis')
                              /\ UNCHANGED <<warm, removed>>
                     [] c.cmd = "SETEX" ->
                          LET fin == FinishSet([pr EXCEPT !.revived = pr.hash \in gone],
                                               "true", FALSE)
                          IN  /\ queue' = rest
                              /\ Update(c.p, fin)
                              /\ warm' = WarmAfter(c.p, fin, rest)
                              /\ stored' = StoredAfter(c.p, fin, rest, TRUE)
                              /\ UNCHANGED removed
                     [] c.cmd = "DEL" ->
                          LET fin == [pr EXCEPT !.pc = "done", !.res = "true"]
                          IN  /\ queue' = rest
                              /\ Update(c.p, fin)
                              /\ removed' = RemovedAfter(c.p, fin, rest)
                              /\ stored' = StoredNone
                              /\ UNCHANGED warm
           /\ gone' = GoneAfter(c)
    /\ UNCHANGED <<backend, now, cache>>

\* The oldest command fails (connection error): it is not applied. get's
\* catch() and set's catch() warn; a failed EXPIRE only warns; remove has no
\* catch() and rejects.
StoreError ==
    /\ queue # <<>>
    /\ NoneDone
    /\ LET c  == Head(queue)
           pr == procs[c.p]
       IN  /\ queue' = Tail(queue)
           /\ IF c.p = 0
              THEN UNCHANGED procs
              ELSE CASE c.cmd = "GET" ->
                          Update(c.p, AfterGet(pr, Undefined, TRUE, "none"))
                     [] c.cmd = "EXPIRE" ->
                          Update(c.p, [AfterGet(pr, pr.val, FALSE, pr.saw)
                                         EXCEPT !.warned = TRUE])
                     [] c.cmd = "SETEX" ->
                          Update(c.p, FinishSet(pr, SetFailed, TRUE))
                     [] c.cmd = "DEL" ->
                          Update(c.p, [pr EXCEPT !.pc = "done", !.res = "rejected"])
    /\ stored' = StoredNone
    /\ UNCHANGED <<backend, now, cache, redis, warm, removed, gone>>

\* .timeout(250) of _get and _set: the caller stops waiting. An unanswered GET
\* changes nothing later; an unanswered SETEX is still with the store.
Timeout(p) ==
    LET pr == procs[p]
    IN  /\ pr.pc \in {"get_wait", "set_wait"}
        /\ NoneDone
        /\ IF pr.pc = "get_wait"
           THEN /\ queue' = SelectSeq(queue, LAMBDA c : c.p # p)
                /\ Update(p, AfterGet(pr, Undefined, TRUE, "none"))
           ELSE /\ queue' = [i \in DOMAIN queue |->
                               IF queue[i].p = p THEN [queue[i] EXCEPT !.p = 0]
                               ELSE queue[i]]
                /\ Update(p, FinishSet(pr, SetFailed, TRUE))
        /\ stored' = StoredNone
        /\ UNCHANGED <<backend, now, cache, redis, warm, removed, gone>>

\* The setInterval callback of the MemoryCache constructor
Prune ==
    /\ backend = "memory"
    /\ NoneDone
    /\ cache' = MemPrune(cache)
    /\ UNCHANGED <<backend, now, redis, queue, procs, warm, removed, stored, gone>>

\* Time passes.
Tick ==
    /\ now < MaxTime
    /\ NoneDone
    /\ now' = now + 1
    /\ redis' = StoreExpire(redis, now + 1)
    /\ warm' = [h \in HashArgs |->
                  IF backend = "memory"
                  THEN IF CacheKey(h) \in DOMAIN cache
                          /\ ~(cache[CacheKey(h)].expiration < now + 1)
                       THEN warm[h] ELSE Undefined
                  ELSE IF Prefix(CacheKey(h)) \in DOMAIN redis'
                       THEN warm[h] ELSE Undefined]
    /\ UNCHANGED <<backend, cache, queue, procs, removed, stored, gone>>

\* The caller takes the result. Callers are interchangeable, so the calls
\* still in flight move up into the freed slot, and with them the names on their
\* commands.
Slot(p, q) == IF q < p THEN q ELSE q - 1

Return(p) ==
    /\ procs[p].pc = "done"
    /\ procs' = [q \in Procs |->
                   IF q < p THEN procs[q]
                   ELSE IF q + 1 \in Procs THEN procs[q + 1]
                   ELSE IdleProc]
    /\ queue' = [i \in DOMAIN queue |->
                   [queue[i] EXCEPT !.p = IF @ = 0 THEN 0 ELSE Slot(p, @)]]
    /\ UNCHANGED <<backend, now, cache, redis, warm, removed, stored, gone>>

Next ==
    \/ \E p \in Procs, h \in HashesOf(backend) : CallGet(p, h)
    \/ \E p \in Procs, h \in HashesOf(backend), t \in Tokens : CallCompare(p, h, t)
    \/ \E p \in Procs, h \in HashesOf(backend) \cup {Undefined},
          t \in Tokens \cup {Undefined} : CallSet(p, h, t)
    \/ \E p \in Procs, h \in HashesOf(backend) : CallRemove(p, h)
    \/ \E p \in Procs : Hash(p)
    \/ \E p \in Procs : Timeout(p)
    \/ \E p \in Procs : Return(p)
    \/ StoreReply
    \/ StoreError
    \/ Prune
    \/ Tick

Spec == Init /\ [][Next]_vars

\* The prune timer keeps firing whatever the callers do, and a settled call
\* hands its result to its caller.
FairSpec ==
    /\ Spec
    /\ SF_vars(Prune)
    /\ \A p \in Procs : WF_vars(Return(p))

\* Callers that only compare: calls of compare, overlapping as they come, and
\* the steps of the backend.
CompareNext ==
    \/ \E p \in Procs, h \in HashesOf(backend), t \in Tokens : CallCompare(p, h, t)
    \/ \E p \in Procs : Hash(p)
    \/ \E p \in Procs : Timeout(p)
    \/ \E p \in Procs : Return(p)
    \/ StoreReply
    \/ StoreError
    \/ Prune
    \/ Tick

CompareSpec == Init /\ [][CompareNext]_vars

\* Callers of the in-process backend alone, passing a hash and its digest.
MemoryInit == Init /\ backend = "memory"

MemoryNext ==
    \/ \E p \in Procs, h \in DigestHashes : CallGet(p, h)
    \/ \E p \in Procs, h \in DigestHashes, t \in Tokens : CallCompare(p, h, t)
    \/ \E p \in Procs, h \in DigestHashes, t \in Tokens : CallSet(p, h, t)
    \/ \E p \in Procs, h \in DigestHashes : CallRemove(p, h)
    \/ \E p \in Procs : Hash(p)
    \/ \E p \in Procs : Return(p)
    \/ Prune
    \/ Tick

MemorySpec == MemoryInit /\ [][MemoryNext]_vars

\* ------------------------------------------------------------ claims
Done(p, op) == procs[p].pc = "done" /\ procs[p].op = op

\* What the authoritative comparison of a call's token against its hash gives.
Authoritative(pr) == IF bcrypt_compare(pr.token, pr.hash) THEN "true" ELSE "false"

\* C1: every compare(h, t) that completes returns what the authoritative
\* comparison of t against h returns, whatever was called before it.
C1_CompareIsAuthoritative ==
    \A p \in Procs : Done(p, "compare") => procs[p].res = Authoritative(procs[p])

\* C2: a compare(h, t) that the authoritative comparison accepts returns true
\* on a miss, and once it has returned with the backend working, a following
\* compare(h, t) made before the entry expires finds the entry, returns true
\* from the cached value and does not hand h to bcrypt.compare.
C2_SecondCompareHitsCache ==
    /\ \A h \in HashArgs : warm[h] # Undefined => Live(h)
    /\ \A p \in Procs :
         LET pr == procs[p]
         IN  /\ Done(p, "compare") /\ pr.looked = "miss"
                  /\ bcrypt_compare(pr.token, pr.hash)
                => pr.res = "true"
             /\ Done(p, "compare") /\ pr.saw = "warm"
                => /\ pr.looked = "hit"
                   /\ pr.res = "true"
                   /\ pr.cmpArg = pr.val
                   /\ pr.bcryptArg # pr.hash
                   /\ pr.setRes = "none"

C2_Witness ==
    \E p \in Procs :
        /\ Done(p, "compare") /\ procs[p].saw = "warm"
        /\ procs[p].looked = "hit" /\ procs[p].res = "true"

\* C3: a compare(h, t) that the authoritative comparison rejects and that found
\* no entry returns false and never enters set; compare enters set only with a
\* true result after a lookup that found nothing.
C3_RejectedCompareWritesNothing ==
    \A p \in Procs :
        LET pr == procs[p]
        IN  /\ pr.op = "compare" /\ pr.looked = "miss"
                 /\ ~bcrypt_compare(pr.token, pr.hash)
               => pr.res = "false" /\ pr.setRes = "none" /\ ~pr.wrote
            /\ pr.op = "compare" /\ pr.setRes # "none"
               => pr.res = "true" /\ pr.looked \in {"miss", "fail"}

\* C4: on a hit compare hands the cached value to _compare, returns the
\* result of the cheap comparison against it, true or false, never hands h to
\* bcrypt.compare and never enters set.
C4_HitIsTrusted ==
    \A p \in Procs :
        LET pr == procs[p]
        IN  Done(p, "compare") /\ pr.looked = "hit"
            => /\ pr.val # Undefined
               /\ pr.cmpArg = pr.val
               /\ pr.res = (IF pr.val = BackendHash(pr.token) THEN "true" ELSE "false")
               /\ pr.bcryptArg # pr.hash
               /\ ~pr.needsSave /\ pr.setRes = "none" /\ ~pr.hashed /\ ~pr.wrote

C4_Witness ==
    \E p \in Procs :
        Done(p, "compare") /\ procs[p].looked = "hit" /\ procs[p].res = "false"

\* C5: a compare that found no cached value (miss, expired entry, failed
\* lookup) hands the original h to bcrypt.compare and returns its result.
C5_MissIsAuthoritative ==
    \A p \in Procs :
        LET pr == procs[p]
        IN  Done(p, "compare") /\ pr.looked \in {"miss", "fail"}
            => pr.bcryptArg = pr.hash /\ pr.res = Authoritative(pr)

\* C6: when _get fails or times out, get warns and resolves to undefined, and
\* compare goes on to return the authoritative result without rejecting.
C6_FailedLookupDegrades ==
    \A p \in Procs :
        LET pr == procs[p]
        IN  pr.looked = "fail"
            => /\ pr.warned /\ pr.val = Undefined
               /\ Done(p, "get") => pr.res = "undefined"
               /\ Done(p, "compare") => pr.res = Authoritative(pr)

\* C7: when the cheap hash or _set fails while compare populates the cache
\* after an accepted authoritative comparison, compare still resolves to true.
C7_FailedPopulationIgnored ==
    \A p \in Procs :
        LET pr == procs[p]
        IN  Done(p, "compare") /\ pr.needsSave /\ bcrypt_compare(pr.token, pr.hash)
            => pr.res = "true" /\ pr.setRes \in {"true", "undefined"}

C7_Witness ==
    \E p \in Procs :
        /\ Done(p, "compare") /\ bcrypt_compare(procs[p].token, procs[p].hash)
        /\ procs[p].setRes = "undefined" /\ procs[p].warned
        /\ procs[p].looked = "miss" /\ procs[p].res = "true"

\* C8: set(h, t) with both arguments resolves to a boolean: true when the
\* entry was stored, false (after a warn event) when hashing or _set failed.
C8_SetResolvesBoolean ==
    \A p \in Procs :
        LET pr == procs[p]
        IN  Done(p, "set") /\ pr.hash # Undefined /\ pr.token # Undefined
            => /\ pr.res \in {"true", "false"}
               /\ pr.res = "false" => pr.warned

\* C9: set(h, t) with h or t missing resolves to false at once, warns, calls
\* neither _hash nor _set and leaves the backend as it was.
C9_MissingParams ==
    [][\A p \in Procs :
         /\ procs[p].pc = "idle"
         /\ procs'[p].op = "set"
         /\ procs'[p].hash = Undefined \/ procs'[p].token = Undefined
         => /\ procs'[p].pc = "done"
            /\ procs'[p].res = "false"
            /\ procs'[p].warned
            /\ ~procs'[p].hashed /\ ~procs'[p].wrote
            /\ cache' = cache /\ redis' = redis /\ queue' = queue]_vars

C9_Witness ==
    \E p \in Procs :
        /\ Done(p, "set") /\ procs[p].token = Undefined /\ procs[p].hash = tokenHash
        /\ procs[p].res = "false" /\ procs[p].warned
        /\ Held(tokenHash)

\* C10: a remove(h) that resolves resolves to true, whether or not an entry
\* was there (so also twice in a row), and after it the backend holds nothing
\* for h and get(h) is undefined until the next set or compare of h.
C10_RemoveIdempotent ==
    /\ \A p \in Procs :
         Done(p, "remove") /\ procs[p].res # "rejected" => procs[p].res = "true"
    /\ \A h \in removed : ~Held(h)
    /\ \A p \in Procs :
         procs[p].op \in {"get", "compare"} /\ procs[p].saw = "removed"
         => procs[p].looked = "miss" /\ procs[p].val = Undefined

\* A second remove in a row, of a hash that holds nothing.
C10_Witness ==
    \E p \in Procs :
        /\ Done(p, "remove") /\ procs[p].res = "true"
        /\ procs[p].saw = "removed"


\* C11: no public operation hands a backend failure to its caller: a get whose
\* lookup failed resolves to absent, a set whose write failed resolves to false
\* and a remove resolves to a boolean; none of them rejects, remove included
\* when the store's delete command fails.
C11_FailureNeverPropagates ==
    \A p \in Procs :
        LET pr == procs[p]
        IN  /\ Done(p, "get") => pr.res \in {"value", "undefined"}
            /\ Done(p, "get") /\ pr.looked = "fail" => pr.res = "undefined"
            /\ Done(p, "set") => pr.res \in {"true", "false"}
            /\ Done(p, "remove") => pr.res \in {"true", "false"}

\* The cheap re-hash a backend is to keep for a token: its md5 digest in the
\* in-process backend, a bcrypt hash of cost 4 in the networked one.
CheapRehash(t) == IF backend = "memory" THEN md5(t) ELSE bcrypt_hash(t, 4)

\* A get that was called right after a set of its hash returned true (or after
\* a get that refreshed that entry), looked the entry up and did so before
\* the entry's time ran out.
ReadBack(p) ==
    /\ Done(p, "get")
    /\ procs[p].sawSet # <<>>
    /\ procs[p].looked # "fail"
    /\ procs[p].at < procs[p].sawSet[2] + TTL

\* C12 (as stated): with a working backend set(h, t) returns true, and a get(h)
\* before expiry returns the cheap re-hash of the token of the last set, a
\* non-empty value that is neither the token nor h.
C12_RoundTripAsStated ==
    \A p \in Procs :
        LET pr == procs[p]
        IN  /\ Done(p, "set") /\ ~pr.warned /\ pr.hash # Undefined
                              /\ pr.token # Undefined => pr.res = "true"
            /\ ReadBack(p) =>
                 /\ pr.res = "value"
                 /\ pr.val = CheapRehash(pr.sawSet[1])
                 /\ pr.val # Undefined
                 /\ pr.val # pr.sawSet[1]
                 /\ pr.val # pr.hash

\* C12 (amended): the same, the value read back being different from h
\* whenever h is not itself the cheap re-hash of the token: the in-process
\* backend keeps md5(t) under set(md5(t), t), which is h.
C12_RoundTrip ==
    \A p \in Procs :
        LET pr == procs[p]
        IN  /\ Done(p, "set") /\ ~pr.warned /\ pr.hash # Undefined
                              /\ pr.token # Undefined => pr.res = "true"
            /\ ReadBack(p) =>
                 /\ pr.res = "value"
                 /\ pr.val = CheapRehash(pr.sawSet[1])
                 /\ pr.val # Undefined
                 /\ pr.val # pr.sawSet[1]
                 /\ pr.hash # CheapRehash(pr.sawSet[1]) => pr.val # pr.hash

\* A get made after a set has returned true reads the re-hash of the set's
\* token back, a value that is neither the token nor the hash.
C12_Witness ==
    \E p \in Procs :
        /\ ReadBack(p)
        /\ procs[p].res = "value"
        /\ procs[p].val = CheapRehash(procs[p].sawSet[1])
        /\ procs[p].val # procs[p].hash

\* The step in which a call of the in-process backend looks its entry up.
MemLookupStep(p) ==
    /\ backend = "memory"
    /\ procs[p].pc = "idle"
    /\ procs'[p].op \in {"get", "compare"}
    /\ procs'[p].looked \in {"hit", "miss"}

\* The step in which the store's answer to GET reaches a call.
StoreLookupStep(p) ==
    /\ backend = "redis"
    /\ procs[p].pc = "get_wait"
    /\ procs'[p].looked \in {"hit", "miss"} \/ procs'[p].pc = "exp_wait"

\* C13: an entry written by set at time T is returned by a get at time T, and
\* a get later than T + ttl, no read having refreshed the entry in between,
\* returns absent; a lookup never returns the value of an entry whose expiry time has
\* passed and leaves such an entry's expiry time as it was.
C13_Expiration ==
    /\ [](\A p \in Procs :
            LET pr == procs[p]
            IN  (/\ Done(p, "get")
                 /\ pr.sawSet # <<>>
                 /\ pr.looked # "fail"
                 /\ pr.sawSet[2] = pr.sawSet[3])
                  => /\ pr.at = pr.sawSet[2]
                          => pr.res = "value" /\ pr.val = CheapRehash(pr.sawSet[1])
                     /\ pr.at > pr.sawSet[2] + TTL
                          => pr.res = "undefined" /\ pr.val = Undefined)
    /\ [](\A k \in DOMAIN redis : redis[k].expiresAt > now)
    /\ [][\A p \in Procs :
            /\ MemLookupStep(p) =>
                 LET key == md5(procs'[p].hash)
                 IN  key \in DOMAIN cache /\ cache[key].expiration < now
                       => /\ procs'[p].val = Undefined
                          /\ key \in DOMAIN cache' => cache'[key] = cache[key]
            /\ StoreLookupStep(p) /\ procs'[p].val # Undefined =>
                 LET key == <<13>> \o md5(procs[p].hash)
                 IN  /\ key \in DOMAIN redis
                     /\ redis[key].expiresAt > now
                     /\ procs'[p].val = redis[key].value]_vars

\* A get made after the lifetime of the entry a set wrote has run out,
\* nothing having read it in between, finds nothing.
C13_Witness ==
    \E p \in Procs :
        /\ Done(p, "get")
        /\ procs[p].sawSet # <<>>
        /\ procs[p].sawSet[2] = procs[p].sawSet[3]
        /\ procs[p].at > procs[p].sawSet[2] + TTL
        /\ procs[p].looked = "miss"

\* The expiry time of the entry the backend holds for a hash.
ExpiryOf(hash) ==
    IF backend = "memory" THEN cache[CacheKey(hash)].expiration
    ELSE redis[Prefix(CacheKey(hash))].expiresAt

\* What sliding expiration gives a get called right after a set or a read of
\* its hash: the entry when less than ttl has passed since, nothing when more
\* than ttl has passed.
Sliding(pr) ==
    pr.sawSet # <<>> /\ pr.looked # "fail"
      => /\ pr.at < pr.sawSet[2] + TTL
              => pr.res = "value" /\ pr.val = CheapRehash(pr.sawSet[1])
         /\ pr.at > pr.sawSet[2] + TTL => pr.res = "undefined"

\* C14 (as stated): a get that finds an unexpired entry at time N leaves it
\* with expiry time exactly N + ttl, and a set at time T with T + ttl; read at
\* intervals shorter than ttl the entry stays, and after the first gap longer
\* than ttl the next get returns absent.
C14_SlidingAsStated ==
    \A p \in Procs :
        LET pr == procs[p]
        IN  /\ Done(p, "get") /\ pr.looked = "hit"
                 => Held(pr.hash) /\ ExpiryOf(pr.hash) = pr.at + TTL
            /\ Done(p, "set") /\ pr.res = "true"
                 => Held(pr.hash) /\ ExpiryOf(pr.hash) = now + TTL
            /\ Done(p, "get") => Sliding(pr)

\* C14 (amended): so it is in the in-process backend. In the networked backend
\* the refresh is a command of its own, sent after the value has arrived: when
\* the store carries it out on a key it still holds, the expiry time becomes
\* that moment plus ttl; when the command fails the get still returns the
\* value and the expiry time is the one the entry had.
C14_Sliding ==
    \A p \in Procs :
        LET pr == procs[p]
        IN  /\ Done(p, "get") /\ pr.looked = "hit" /\ backend = "memory"
                 => Held(pr.hash) /\ ExpiryOf(pr.hash) = pr.at + TTL
            /\ Done(p, "get") /\ pr.looked = "hit" /\ backend = "redis"
                 => /\ pr.res = "value"
                    /\ ~pr.warned /\ Held(pr.hash) => ExpiryOf(pr.hash) = now + TTL
            /\ Done(p, "set") /\ pr.res = "true"
                 => Held(pr.hash) /\ ExpiryOf(pr.hash) = now + TTL
            /\ Done(p, "get") => Sliding(pr)

\* Read at intervals shorter than ttl, an entry is still returned more than
\* ttl after it was written.
C14_Witness ==
    \E p \in Procs :
        /\ Done(p, "get")
        /\ procs[p].sawSet # <<>>
        /\ procs[p].at > procs[p].sawSet[3] + TTL
        /\ procs[p].res = "value"

\* The in-process backend holds an entry for the hash whose expiry time has
\* passed.
HoldsExpired(hash) ==
    /\ md5(hash) \in DOMAIN cache
    /\ cache[md5(hash)].expiration < now

\* A step of the in-process backend that changes the mapping while no call
\* moves and no time passes: a prune scan.
PruneStep ==
    /\ backend = "memory"
    /\ procs' = procs
    /\ now' = now
    /\ cache' # cache

\* C15: in the in-process backend, as long as the prune timer keeps firing,
\* an entry whose expiry time has passed does not stay in the mapping for ever,
\* read or not; a prune scan removes every entry whose expiry time is earlier
\* than now and leaves every other entry, value and expiry time, as it was.
C15_Prune ==
    /\ [][PruneStep =>
            /\ DOMAIN cache' = {k \in DOMAIN cache : ~(cache[k].expiration < now)}
            /\ \A k \in DOMAIN cache' : cache'[k] = cache[k]]_vars
    /\ \A h \in HashesOf("memory") : HoldsExpired(h) ~> ~HoldsExpired(h)

\* The entry a set wrote is gone from the mapping once its time has run out,
\* though no call was made since the set returned: a prune scan removed it.
C15_Witness ==
    /\ backend = "memory"
    /\ \E h \in HashArgs :
         /\ stored[h] # <<>>
         /\ stored[h][2] + TTL < now
         /\ md5(h) \notin DOMAIN cache

\* The one key the backend is to use for a hash: its digest, prefixed in the
\* networked backend.
DigestKey(hash) == IF backend = "memory" THEN md5(hash) ELSE <<13>> \o md5(hash)

\* Every key held, and every key named in a command, is the digest key of an
\* authoritative hash and is not that hash itself.
KeysAreDigests ==
    \A k \in DOMAIN cache \cup DOMAIN redis \cup {queue[i].key : i \in DOMAIN queue} :
        \E h \in HashArgs : k = DigestKey(h) /\ k # h

\* A key enters the backend only through the write of a set, or of the
\* population of a compare, of the hash it is the digest key of.
KeysComeFromSet ==
    /\ \A k \in DOMAIN cache' \ DOMAIN cache :
         \E p \in Procs : /\ procs[p].pc = "set_hash"
                          /\ procs[p].op \in {"set", "compare"}
                          /\ k = DigestKey(procs[p].hash)
    /\ \A k \in DOMAIN redis' \ DOMAIN redis :
         queue # <<>> /\ Head(queue).cmd = "SETEX" /\ Head(queue).key = k
    /\ \A p \in Procs :
         procs[p].pc = "set_hash" /\ procs'[p].pc = "set_wait"
           => /\ procs[p].op \in {"set", "compare"}
              /\ queue' = Append(queue, [cmd |-> "SETEX",
                                         key |-> DigestKey(procs[p].hash),
                                         val |-> CheapRehash(procs[p].token),
                                         p |-> p])

\* C16: every key a backend holds is the digest of an authoritative hash that
\* was passed to set or compare (prefixed in the networked backend) and never
\* the hash itself, and a get, a set or a remove of a hash h names that one key
\* and no other.
C16_KeysAreDigests ==
    /\ [](KeysAreDigests)
    /\ [][KeysComeFromSet]_vars
    /\ [](\A p \in Procs :
            procs[p].op \in {"get", "set", "remove"}
              => procs[p].keys \subseteq {DigestKey(procs[p].hash)})

\* C17: when a lookup of the in-process backend finds an entry whose expiry
\* time has passed, it reports absence and, once it has returned, the mapping
\* holds no entry under that key.
C17_LazyExpiry ==
    [][\A p \in Procs :
         MemLookupStep(p) =>
           LET key == md5(procs'[p].hash)
           IN  key \in DOMAIN cache /\ cache[key].expiration < now
                 => /\ procs'[p].val = Undefined
                    /\ key \notin DOMAIN cache']_vars

\* Within a compare the lookup comes first, the comparison second, and the
\* population, which follows only a lookup that found nothing and a comparison
\* that accepted, last.
InOrder(pr) ==
    pr.op = "compare" =>
      /\ pr.res # "none" => pr.looked # "none" /\ pr.cmpArg # Undefined
      /\ pr.setRes # "none" =>
           pr.looked \in {"miss", "fail"} /\ pr.needsSave /\ pr.res = "true"
      /\ pr.wrote => pr.hashed

\* C18 (as stated): the steps of a compare are ordered lookup, comparison,
\* population, and the result is delivered without waiting for the population:
\* whenever the population of a compare is still under way, the compare has
\* already settled.
C18_PopulationNotAwaited ==
    \A p \in Procs :
        /\ InOrder(procs[p])
        /\ procs[p].op = "compare" /\ procs[p].setRes = "pending"
             => procs[p].pc = "done"

\* C18 (amended): the steps are so ordered, and the population is awaited: a
\* compare settles only once its set has settled, with the entry written when
\* the set succeeded, and with the result the comparison gave either way.
C18_PopulationAwaited ==
    \A p \in Procs :
        LET pr == procs[p]
        IN  /\ InOrder(pr)
            /\ Done(p, "compare") => pr.setRes # "pending"
            /\ Done(p, "compare") /\ pr.setRes = "true"
                 => /\ Held(pr.hash)
                    /\ StoreValue(pr.hash) = CheapRehash(pr.token)
            /\ Done(p, "compare") /\ pr.setRes # "none" => pr.res = "true"

\* A compare delivers true with the entry of its population in the backend.
C18_Witness ==
    \E p \in Procs :
        /\ Done(p, "compare")
        /\ procs[p].looked = "miss"
        /\ procs[p].setRes = "true"
        /\ procs[p].res = "true"
        /\ Held(procs[p].hash)
        /\ StoreValue(procs[p].hash) = CheapRehash(procs[p].token)

\* C19: when compare calls for the same hash overlap, each returns what the
\* authoritative comparison gives for its own token, and the entry the backend
\* is left with for a hash is the cheap re-hash of a token the authoritative
\* comparison accepts for it.
C19_InterleavedCompares ==
    /\ \A p \in Procs : Done(p, "compare") => procs[p].res = Authoritative(procs[p])
    /\ \A h \in HashArgs :
         Held(h) => \E t \in Tokens : /\ bcrypt_compare(t, h)
                                      /\ StoreValue(h) = CheapRehash(t)

\* A call of the networked backend that waits for the store's answer to a
\* command: GET, the EXPIRE that follows it, SETEX or DEL.
Waiting(p) == procs[p].pc \in {"get_wait", "exp_wait", "set_wait", "rm_wait"}

\* C20: every command the networked backend sends is bounded by a timeout, so
\* that a call waiting for the store can always stop waiting and complete
\* though the store never answers; and a get that read a value returns that
\* value whatever becomes of the expiry refresh.
C20_EveryCommandTimesOut ==
    \A p \in Procs :
        /\ NoneDone /\ Waiting(p) => ENABLED Timeout(p)
        /\ Done(p, "get") /\ procs[p].looked = "hit"
             => procs[p].res = "value" /\ procs[p].val # Undefined

\* C21 (as stated): once a remove(h) has completed the backend holds no entry
\* for h until a set or compare of h called after that writes one: no call
\* that was already under way when the remove completed writes an entry for h.
C21_RemoveStaysRemoved ==
    /\ \A h \in gone : ~Held(h)
    /\ \A p \in Procs : ~procs[p].revived

\* C21 (amended): once a remove(h) has completed the backend holds no entry
\* for h until a set, or the population of a compare, of h writes one, and
\* that includes one already under way (past its lookup) when the remove
\* ran: its write puts the re-hash of its token back under h.
C21_RemoveUntilNextWrite ==
    /\ \A h \in gone : ~Held(h)
    /\ \A p \in Procs :
         procs[p].revived
           => /\ procs[p].op \in {"set", "compare"}
              /\ procs[p].pc = "done" /\ procs[p].wrote
              /\ Held(procs[p].hash)
              /\ StoreValue(procs[p].hash) = CheapRehash(procs[p].token)

\* A compare that had looked up before a remove of its hash completed has
\* written its entry after it.
C21_Witness ==
    \E p \in Procs :
        /\ Done(p, "compare")
        /\ procs[p].revived
        /\ procs[p].res = "true"
        /\ Held(procs[p].hash)

\* C22: a lookup of the in-process backend, by get(h) or by compare(h, t),
\* changes at most the entry keyed by the digest of h: no other key appears or
\* disappears, and the value and expiration under every other key stay as
\* they were, also when h or another stored hash is itself a digest.
C22_ReadFrame ==
    [][\A p \in Procs :
          MemLookupStep(p)
            => \A k \in (DOMAIN cache \cup DOMAIN cache') \ {md5(procs'[p].hash)} :
                 /\ k \in DOMAIN cache
                 /\ k \in DOMAIN cache'
                 /\ cache'[k] = cache[k]]_vars

====
